---------------------------- MODULE Spec2Model ----------------------------
(***************************************************************************)
(* A model of streamlit_app.py: the scoring engine (calculate_ace_score),  *)
(* the strategy level calculator (calculate_strategy), the batch scanner   *)
(* (fetch_stock_data_full), the single-symbol data service                 *)
(* (get_analysis_data), the report generator (generate_ai_report), the     *)
(* candle narrative (get_kline_narrative), the watchlist of the sidebar    *)
(* and the home dashboard of the main view.                                *)
(*                                                                         *)
(* Conventions.                                                            *)
(*  - A pandas/numpy float that may be NaN is a record [nan, v]; every     *)
(*    ordered comparison with a NaN operand is FALSE, as in IEEE 754.      *)
(*  - A quotient the code computes in floating point is kept as an exact   *)
(*    fraction [num, den] with den > 0 and compared by cross               *)
(*    multiplication: rounding of the float division is abstracted.        *)
(*  - A Python dict is a function whose DOMAIN is the set of present keys. *)
(*  - A Python exception that leaves a function is recorded in a           *)
(*    variable (raised) and stops that function.                           *)
(*  - Reason and action labels are written in English; the source strings  *)
(*    are given where each label is defined.                               *)
(* Each component has its own specification (SpecScore, SpecStrategy, ...) *)
(* over the same variables; the variables of the other components stay at  *)
(* their idle values.                                                      *)
(***************************************************************************)
EXTENDS Integers, Sequences, FiniteSets, TLC

VARIABLES
    \* calculate_ace_score
    df, info, pc, score, reasons, change_pct, ma20, ma60, vol, avg_vol_5,
    bias, final_score, action, raised,
    \* calculate_strategy
    price, strat_score, roe, strat,
    \* fetch_stock_data_full
    symbol_list, quotes, fetch_pc, fetch_i, data_map,
    \* get_analysis_data
    symbol, market, sym, hist_df, lookups, analysis_pc, analysis_result,
    \* generate_ai_report
    api_key, report_df, service, report_pc, remote_calls, report,
    \* get_kline_narrative
    narr_df, narr_pc, narrative,
    \* st.session_state and the widget that fired in the last script run
    watchlist, current_view, click,
    \* the home dashboard
    index_quotes, dash_pc, dash_raised, rendered

scoreVars == <<df, info, pc, score, reasons, change_pct, ma20, ma60, vol,
               avg_vol_5, bias, final_score, action, raised>>

stratVars == <<price, strat_score, roe, strat>>

fetchVars == <<symbol_list, quotes, fetch_pc, fetch_i, data_map>>

analysisVars == <<symbol, market, sym, hist_df, lookups, analysis_pc,
                  analysis_result>>

reportVars == <<api_key, report_df, service, report_pc, remote_calls, report>>

narrVars == <<narr_df, narr_pc, narrative>>

sessionVars == <<watchlist, current_view, click>>

dashVars == <<index_quotes, dash_pc, dash_raised, rendered>>

vars == <<scoreVars, stratVars, fetchVars, analysisVars, reportVars,
          narrVars, sessionVars, dashVars>>

-----------------------------------------------------------------------------
(* Bounds of the model *)

\* the longest indicator frame (number of bars) the model draws; with more
\* than five bars tail(5) leaves bars out of the volume average
MaxBars == 6

-----------------------------------------------------------------------------
(* Values *)

Min(a, b) == IF a < b THEN a ELSE b
Max(a, b) == IF a > b THEN a ELSE b

RECURSIVE SumSeq(_)
SumSeq(s) == IF s = <<>> THEN 0 ELSE Head(s) + SumSeq(Tail(s))

\* a float: NaN or the number v
NaN == [nan |-> TRUE, v |-> 0]
Num(n) == [nan |-> FALSE, v |-> n]
\* np.isnan
isnan(x) == x.nan

\* Series.tail(n): the last n elements, or all of them when there are fewer
tail(s, n) == SubSeq(s, Max(1, Len(s) - n + 1), Len(s))

\* dict.get(key, default)
get(d, key, default) == IF key \in DOMAIN d THEN d[key] ELSE default

\* "no value yet" for a variable a function has not assigned
None == [none |-> TRUE]

-----------------------------------------------------------------------------
(* Inputs drawn by the model *)

\* closing prices: 100 -> 103 is exactly +3%, 103 -> 107 is +3.88%,
\* 100 -> 107 is exactly +7%, 100 -> 96 is exactly -4%, 107 -> 96 is -10.3%
CloseVals == {96, 100, 103, 107}
\* volumes: <<1, 4>> ends in a breakout, <<4, 1>> in a freeze, <<1, 1>> is flat
VolVals == {1, 4}
\* last MA20 / MA60 of the frame: 107 is 18.9% above 90, 103 is 14.4% above
MAVals == {NaN, Num(90), Num(100)}
\* trailing P/E as reported by the data source
PEVals == {10, 15, 18}
\* return on equity in hundredths (20 is 0.20)
ROEVals == {20}

\* an indicator frame of n bars: the Close and Volume columns, and the last
\* element of the MA20 and MA60 columns (the only one the scoring reads).
\* The bars older than the last two close at 100 (the scoring never reads
\* them) and the bars older than the last five have volume 40.
Frames(maxBars) ==
    UNION { { [Close |-> c, Volume |-> v, MA20 |-> a, MA60 |-> b] :
                c \in { x \in [1..n -> CloseVals] :
                          \A i \in 1..n : i < n - 1 => x[i] = 100 },
                v \in { x \in [1..n -> VolVals \cup {40}] :
                          \A i \in 1..n : (i < n - 4) <=> (x[i] = 40) },
                a \in MAVals, b \in MAVals }
            : n \in 0..maxBars }

\* fundamentals records: each field present or absent
Infos ==
    UNION { { [k \in ks |-> IF k = "trailingPE" THEN pe ELSE re] :
                pe \in PEVals, re \in ROEVals }
            : ks \in SUBSET {"trailingPE", "returnOnEquity"} }

-----------------------------------------------------------------------------
(* calculate_ace_score, lines 224-274, one action per numbered step *)

\* the value of a chained comparison lo < n/d < hi on an exact fraction
FracGt(f, k) == f.num > k * f.den
FracLt(f, k) == f.num < k * f.den
FracGe(f, k) == f.num >= k * f.den

\* ((curr - prev) / prev) * 100, line 233
ChangePct(curr, prev) == [num |-> (curr - prev) * 100, den |-> prev]

\* ((curr - ma20) / ma20) * 100, line 259: NaN when ma20 is NaN
Bias(curr, m) ==
    IF isnan(m) THEN [nan |-> TRUE, num |-> 0, den |-> 1]
    ELSE [nan |-> FALSE, num |-> (curr - m.v) * 100, den |-> m.v]

\* a step of calculate_ace_score leaves the other components alone
ScoreOnly ==
    UNCHANGED <<stratVars, fetchVars, analysisVars, reportVars, narrVars,
                sessionVars,
                dashVars>>

\* before the call
ScoreIdle ==
    /\ df = None /\ info = None /\ pc = "idle"
    /\ score = 0 /\ reasons = <<>>
    /\ change_pct = None /\ ma20 = None /\ ma60 = None
    /\ vol = None /\ avg_vol_5 = None /\ bias = None
    /\ final_score = None /\ action = None /\ raised = None

\* lines 228-229: score = 50, reasons = []
Enter ==
    /\ ScoreOnly
    /\ pc = "idle"
    /\ \E d \in Frames(MaxBars), i \in Infos : df' = d /\ info' = i
    /\ score' = 50
    /\ reasons' = <<>>
    /\ pc' = "read"
    /\ UNCHANGED <<change_pct, ma20, ma60, vol, avg_vol_5, bias, final_score,
                   action, raised>>

\* lines 231-238: iloc[-1] / iloc[-2] raise IndexError on a frame too short
ReadFrame ==
    /\ ScoreOnly
    /\ pc = "read"
    /\ IF Len(df.Close) < 2
       THEN /\ raised' = "IndexError"
            /\ pc' = "raised"
            /\ UNCHANGED <<change_pct, ma20, ma60, vol, avg_vol_5>>
       ELSE /\ change_pct' = ChangePct(df.Close[Len(df.Close)],
                                       df.Close[Len(df.Close) - 1])
            /\ ma20' = df.MA20
            /\ ma60' = df.MA60
            /\ vol' = df.Volume[Len(df.Volume)]
            \* the mean of the last five volumes, as sum / count
            /\ avg_vol_5' = [num |-> SumSeq(tail(df.Volume, 5)),
                             den |-> Len(tail(df.Volume, 5))]
            /\ pc' = "momentum"
            /\ UNCHANGED raised
    /\ UNCHANGED <<df, info, score, reasons, bias, final_score, action>>

\* lines 240-243
\* "healthy-momentum" is 動能強勁, "overextended-strength" is 強勢漲停,
\* "heavy-selling" is 賣壓沉重
MomentumStep(s, r, c) ==
    IF FracGt(c, 3) /\ FracLt(c, 7)
    THEN [score |-> s + 8, reasons |-> Append(r, "healthy-momentum")]
    ELSE IF FracGe(c, 7)
    THEN [score |-> s + 5, reasons |-> Append(r, "overextended-strength")]
    ELSE IF FracLt(c, -4)
    THEN [score |-> s - 8, reasons |-> Append(r, "heavy-selling")]
    ELSE [score |-> s, reasons |-> r]

Momentum ==
    /\ ScoreOnly
    /\ pc = "momentum"
    /\ score' = MomentumStep(score, reasons, change_pct).score
    /\ reasons' = MomentumStep(score, reasons, change_pct).reasons
    /\ pc' = "volume"
    /\ UNCHANGED <<df, info, change_pct, ma20, ma60, vol, avg_vol_5, bias,
                   final_score, action, raised>>

\* lines 245-247: vol > avg * 1.5 is vol * den * 10 > num * 15
\* "volume-breakout" is 爆量攻擊, "volume-freeze" is 量能急凍
\* mutant: the scoring variant without the volume-freeze penalty
VolumeStepNoFreeze(s, r, v, avg) ==
    IF v * avg.den * 10 > avg.num * 15
    THEN [score |-> s + 5, reasons |-> Append(r, "volume-breakout")]
    ELSE [score |-> s, reasons |-> r]

VolumeStep(s, r, v, avg) ==
    IF v * avg.den * 10 > avg.num * 15
    THEN [score |-> s + 5, reasons |-> Append(r, "volume-breakout")]
    ELSE IF v * avg.den * 10 < avg.num * 5
    THEN [score |-> s - 2, reasons |-> Append(r, "volume-freeze")]
    ELSE [score |-> s, reasons |-> r]

Volume ==
    /\ ScoreOnly
    /\ pc = "volume"
    /\ score' = VolumeStep(score, reasons, vol, avg_vol_5).score
    /\ reasons' = VolumeStep(score, reasons, vol, avg_vol_5).reasons
    /\ pc' = "trend"
    /\ UNCHANGED <<df, info, change_pct, ma20, ma60, vol, avg_vol_5, bias,
                   final_score, action, raised>>

\* lines 250-252 and 255-256 ("above-MA20" is 站穩月線, "below-MA20" is 跌破月線)
TrendStep(s, r, curr, m) ==
    IF ~isnan(m)
    THEN IF curr > m.v
         THEN [score |-> s + 10, reasons |-> Append(r, "above-MA20")]
         ELSE [score |-> s - 10, reasons |-> Append(r, "below-MA20")]
    ELSE [score |-> s, reasons |-> r]

\* lines 253-254, reached only inside the curr > ma20 branch
\* ("bullish-alignment" is 多頭排列)
AlignStep(s, r, curr, m, m60) ==
    IF ~isnan(m) /\ curr > m.v /\ ~isnan(m60) /\ m.v > m60.v
    THEN [score |-> s + 10, reasons |-> Append(r, "bullish-alignment")]
    ELSE [score |-> s, reasons |-> r]

curr == df.Close[Len(df.Close)]

Trend ==
    /\ ScoreOnly
    /\ pc = "trend"
    /\ score' = TrendStep(score, reasons, curr, ma20).score
    /\ reasons' = TrendStep(score, reasons, curr, ma20).reasons
    /\ pc' = "align"
    /\ UNCHANGED <<df, info, change_pct, ma20, ma60, vol, avg_vol_5, bias,
                   final_score, action, raised>>

Align ==
    /\ ScoreOnly
    /\ pc = "align"
    /\ score' = AlignStep(score, reasons, curr, ma20, ma60).score
    /\ reasons' = AlignStep(score, reasons, curr, ma20, ma60).reasons
    /\ pc' = "bias"
    /\ UNCHANGED <<df, info, change_pct, ma20, ma60, vol, avg_vol_5, bias,
                   final_score, action, raised>>

\* lines 258-260 ("overheated-short-term" is 短線過熱)
\* mutant: the overheating penalty taken without its reason label
BiasStepSilent(s, r, b) ==
    IF ~b.nan /\ FracGt(b, 15)
    THEN [score |-> s - 5, reasons |-> r]
    ELSE [score |-> s, reasons |-> r]

BiasStep(s, r, b) ==
    IF ~b.nan /\ FracGt(b, 15)
    THEN [score |-> s - 5, reasons |-> Append(r, "overheated-short-term")]
    ELSE [score |-> s, reasons |-> r]

BiasAdjust ==
    /\ ScoreOnly
    /\ pc = "bias"
    /\ bias' = Bias(curr, ma20)
    /\ score' = BiasStep(score, reasons, Bias(curr, ma20)).score
    /\ reasons' = BiasStep(score, reasons, Bias(curr, ma20)).reasons
    /\ pc' = "fundamentals"
    /\ UNCHANGED <<df, info, change_pct, ma20, ma60, vol, avg_vol_5,
                   final_score, action, raised>>

\* lines 262-264: pe = info.get('trailingPE', 0); "low-pe" is 低本益比
\* mutant: the valuation rule of the other scoring variant (P/E < 20, +7)
FundamentalsStepPE20(s, r, i) ==
    LET pe == get(i, "trailingPE", 0)
    IN  IF pe # 0 /\ 0 < pe /\ pe < 20
        THEN [score |-> s + 7, reasons |-> Append(r, "low-pe")]
        ELSE [score |-> s, reasons |-> r]

FundamentalsStep(s, r, i) ==
    LET pe == get(i, "trailingPE", 0)
    IN  IF pe # 0 /\ 0 < pe /\ pe < 15
        THEN [score |-> s + 5, reasons |-> Append(r, "low-pe")]
        ELSE [score |-> s, reasons |-> r]

Fundamentals ==
    /\ ScoreOnly
    /\ pc = "fundamentals"
    /\ score' = FundamentalsStep(score, reasons, info).score
    /\ reasons' = FundamentalsStep(score, reasons, info).reasons
    /\ pc' = "clamp"
    /\ UNCHANGED <<df, info, change_pct, ma20, ma60, vol, avg_vol_5, bias,
                   final_score, action, raised>>

\* line 266: min(100, max(0, int(score))); score is an int already
\* mutant: the score rescaled to its base of 50 in place of the clamp
FinalScoreRescaled(s) == (s * 100) \div 50

FinalScore(s) == Min(100, Max(0, s))

\* lines 269-272: "strong-buy" is 強力買進, "moderately-bullish" is 偏多操作,
\* "neutral-watch" is 區間觀望, "defensive" is 保守避險
\* mutant: the bands of get_score_class (80 / 60 / 40) used for the label
ActionLabelClassBands(fs) ==
    IF fs >= 80 THEN "strong-buy"
    ELSE IF fs >= 60 THEN "moderately-bullish"
    ELSE IF fs >= 40 THEN "neutral-watch"
    ELSE "defensive"

ActionLabel(fs) ==
    IF fs >= 80 THEN "strong-buy"
    ELSE IF fs >= 65 THEN "moderately-bullish"
    ELSE IF fs >= 45 THEN "neutral-watch"
    ELSE "defensive"

\* lines 266-274
Finish ==
    /\ ScoreOnly
    /\ pc = "clamp"
    /\ final_score' = FinalScore(score)
    /\ action' = ActionLabel(FinalScore(score))
    /\ pc' = "done"
    /\ UNCHANGED <<df, info, score, reasons, change_pct, ma20, ma60, vol,
                   avg_vol_5, bias, raised>>

-----------------------------------------------------------------------------
(* calculate_strategy, lines 276-294 *)

\* an optional number: Python None, or the number v
NoValue == [some |-> FALSE, v |-> 0]
Some(n) == [some |-> TRUE, v |-> n]
\* Python truthiness of an optional number: None and 0 are falsy
Truthy(x) == x.some /\ x.v # 0

\* the largest price the model draws, besides the 100 of the worked example
MaxPrice == 3

Prices == 0..MaxPrice \cup {100}
Scores == 0..100
\* roe in percent, as line 520 passes it
RoeArgs == {NoValue, Some(0), Some(15), Some(16), Some(20)}

StratIdle ==
    price = None /\ strat_score = None /\ roe = None /\ strat = None

StratOnly ==
    UNCHANGED <<scoreVars, fetchVars, analysisVars, reportVars, narrVars,
                sessionVars,
                dashVars>>

\* mutant: the momentum stop placed 7% above the entry instead of below
calculate_strategy_stop_above(p, sc, r) ==
    LET mom == p * (IF sc > 70 THEN 98 ELSE 95)
        val == p * (IF Truthy(r) /\ r.v > 15 THEN 90 ELSE 85)
    IN  [mom |-> [entry |-> mom * 100, stop |-> mom * 107, profit |-> mom * 115],
         val |-> [entry |-> val * 100, stop |-> val * 85, profit |-> val * 130]]

\* Every level is an exact multiple of 1/10000 of the price unit and is kept
\* as that integer: 0.98 * 0.93 is 98 * 93 / 10000. The local tick of line
\* 279 is never used.
calculate_strategy(p, sc, r) ==
    LET mom == p * (IF sc > 70 THEN 98 ELSE 95)
        val == p * (IF Truthy(r) /\ r.v > 15 THEN 90 ELSE 85)
    IN  [mom |-> [entry |-> mom * 100, stop |-> mom * 93, profit |-> mom * 115],
         val |-> [entry |-> val * 100, stop |-> val * 85, profit |-> val * 130]]

CallStrategy ==
    /\ StratOnly
    /\ strat = None
    /\ \E p \in Prices, sc \in Scores, r \in RoeArgs :
         /\ price' = p /\ strat_score' = sc /\ roe' = r
         /\ strat' = calculate_strategy(p, sc, r)

NextStrategy == CallStrategy

-----------------------------------------------------------------------------
(* Claims about calculate_strategy, checked under SpecStrategy *)

\* C7: for every lastPrice > 0, score in 0..100 and ROE (absent included),
\* stop < entry < profitTarget for both strategies, with momentum entry =
\* price * 0.98 if score > 70 else price * 0.95, stop = entry * 0.93, target
\* = entry * 1.15, and value entry = price * 0.90 if roePercent > 15 else
\* price * 0.85, stop = entry * 0.85, target = entry * 1.30.
\* (levels in 1/10000 of the price unit)
C7_StrategyLevels ==
    (strat # None /\ price > 0) =>
        /\ strat.mom.stop < strat.mom.entry
        /\ strat.mom.entry < strat.mom.profit
        /\ strat.val.stop < strat.val.entry
        /\ strat.val.entry < strat.val.profit
        /\ strat.mom.entry =
             (IF strat_score > 70 THEN 9800 * price ELSE 9500 * price)
        /\ 100 * strat.mom.stop = 93 * strat.mom.entry
        /\ 100 * strat.mom.profit = 115 * strat.mom.entry
        /\ strat.val.entry =
             (IF roe.some /\ roe.v > 15 THEN 9000 * price ELSE 8500 * price)
        /\ 100 * strat.val.stop = 85 * strat.val.entry
        /\ 100 * strat.val.profit = 130 * strat.val.entry

\* the worked example: price 100, score 75, ROE 20% gives momentum 98 /
\* 91.14 / 112.70 and value 90 / 76.5 / 117
C7_Witness ==
    /\ strat # None /\ price = 100 /\ strat_score = 75 /\ roe = Some(20)
    /\ strat.mom = [entry |-> 980000, stop |-> 911400, profit |-> 1127000]
    /\ strat.val = [entry |-> 900000, stop |-> 765000, profit |-> 1170000]


-----------------------------------------------------------------------------
(* The data service: get_symbol_tw and fetch_stock_data_full, lines 142-176 *)

\* A symbol or ticker identifier is a Python str, kept as the sequence of
\* its characters.
Digits == {"0", "1", "2", "3", "4", "5", "6", "7", "8", "9"}

\* str.isdigit: non-empty and all digits
isdigit(str) == str # <<>> /\ \A i \in 1..Len(str) : str[i] \in Digits

\* str.startswith
startswith(str, prefix) ==
    Len(str) >= Len(prefix) /\ SubSeq(str, 1, Len(prefix)) = prefix

\* str.replace(old, new): every non-overlapping occurrence, left to right
RECURSIVE replace(_, _, _)
replace(str, old, new) ==
    IF str = <<>> THEN <<>>
    ELSE IF startswith(str, old)
    THEN new \o replace(SubSeq(str, Len(old) + 1, Len(str)), old, new)
    ELSE <<Head(str)>> \o replace(Tail(str), old, new)

TW == <<".", "T", "W">>
TWO == <<".", "T", "W", "O">>

\* lines 142-145
get_symbol_tw(code) ==
    IF isdigit(code) THEN code \o TW
    ELSE IF startswith(code, <<"^">>) THEN code
    ELSE code

\* the longest price history the data source returns in the model
MaxHist == 2
\* the longest symbol list handed to the batch scanner
MaxList == 2

Code2330 == <<"2", "3", "3", "0">>
IndexTWII == <<"^", "T", "W", "I", "I">>
FetchSymbols == {Code2330, IndexTWII}

\* closes of the 5-day history: 100 -> 200 is +100% (fast score capped at
\* 99), 200 -> 100 is -50% (floored at 1), a previous close of 0 makes the
\* change infinite or NaN
FetchCloseVals == {0, 100, 200}

\* What yfinance answers for one identifier: Ticker(...).history raises, or
\* returns the Close column of 0..MaxHist rows; then Ticker(...).info
\* raises, or is a dict
Histories == UNION { [1..n -> FetchCloseVals] : n \in 0..MaxHist }
TickerInfos == { [raises |-> TRUE, dict |-> <<>>],
                 [raises |-> FALSE, dict |-> <<>>],
                 [raises |-> FALSE, dict |-> [longName |-> "TSMC"]] }
Quotes ==
    { [raises |-> TRUE, Close |-> <<>>, info |-> [raises |-> TRUE, dict |-> <<>>]] }
    \cup { [raises |-> FALSE, Close |-> h, info |-> ti] :
             h \in Histories, ti \in TickerInfos }

SymbolLists == UNION { [1..n -> FetchSymbols] : n \in 0..MaxList }

\* int(x) of the float n / d, d > 0: truncation toward zero
IntOf(n, d) == IF n >= 0 THEN n \div d ELSE -((-n) \div d)

\* lines 161-173: the entry stored for code
FetchEntry(code, q) ==
    LET close == q.Close[Len(q.Close)]
        prev == q.Close[Len(q.Close) - 1]
        \* 50 + change * 2 with change = (close - prev) / prev * 100
        raw == IntOf(50 * prev + 200 * (close - prev), prev)
    IN  [id |-> code,
         name |-> get(q.info.dict, "longName", code),
         price |-> close,
         change_pct |-> [num |-> (close - prev) * 100, den |-> prev],
         score |-> Min(99, Max(1, raw))]

\* dm with dm[code] = entry
Store(dm, code, entry) ==
    [c \in DOMAIN dm \cup {code} |-> IF c = code THEN entry ELSE dm[c]]

\* mutant: a failed symbol stored with a null value instead of skipped
FetchOneNullOnFailure(dm, code, q) ==
    IF q.raises THEN Store(dm, code, None)
    ELSE IF Len(q.Close) = 0 THEN Store(dm, code, None)
    ELSE IF q.info.raises THEN Store(dm, code, None)
    ELSE IF Len(q.Close) < 2 THEN Store(dm, code, None)
    ELSE IF q.Close[Len(q.Close) - 1] = 0 THEN Store(dm, code, None)
    ELSE Store(dm, code, FetchEntry(code, q))

\* lines 154-175, one pass of the loop body: data_map after it
FetchOne(dm, code, q) ==
    \* line 157 raised: except, continue
    IF q.raises THEN dm
    \* line 158: hist.empty
    ELSE IF Len(q.Close) = 0 THEN dm
    \* line 159 raised: except, continue
    ELSE IF q.info.raises THEN dm
    \* line 162: iloc[-2] on one row raises IndexError: except, continue
    ELSE IF Len(q.Close) < 2 THEN dm
    \* lines 163-165: prev = 0 makes change inf or NaN and int() raises
    \* OverflowError or ValueError: except, continue
    ELSE IF q.Close[Len(q.Close) - 1] = 0 THEN dm
    ELSE Store(dm, code, FetchEntry(code, q))

FetchIdle ==
    /\ symbol_list = None /\ quotes = None /\ fetch_pc = "idle"
    /\ fetch_i = 0 /\ data_map = None

FetchOnly ==
    UNCHANGED <<scoreVars, stratVars, analysisVars, reportVars, narrVars,
                sessionVars,
                dashVars>>

\* line 152: data_map = {}
FetchEnter ==
    /\ FetchOnly
    /\ fetch_pc = "idle"
    /\ symbol_list' \in SymbolLists
    /\ quotes' \in [{get_symbol_tw(c) : c \in FetchSymbols} -> Quotes]
    /\ data_map' = <<>>
    /\ fetch_i' = 1
    /\ fetch_pc' = "loop"

\* lines 153-175: the next code of the list
FetchIter ==
    /\ FetchOnly
    /\ fetch_pc = "loop"
    /\ fetch_i <= Len(symbol_list)
    /\ data_map' = FetchOne(data_map, symbol_list[fetch_i],
                            quotes[get_symbol_tw(symbol_list[fetch_i])])
    /\ fetch_i' = fetch_i + 1
    /\ UNCHANGED <<symbol_list, quotes, fetch_pc>>

\* line 176
FetchReturn ==
    /\ FetchOnly
    /\ fetch_pc = "loop"
    /\ fetch_i > Len(symbol_list)
    /\ fetch_pc' = "done"
    /\ UNCHANGED <<symbol_list, quotes, fetch_i, data_map>>

NextFetch == FetchEnter \/ FetchIter \/ FetchReturn

-----------------------------------------------------------------------------
(* Claims about fetch_stock_data_full, checked under SpecFetch *)

C8_QuoteOf(i) == quotes[get_symbol_tw(symbol_list[i])]

\* the fetch of the i-th symbol raised or returned an empty series
C8_Failed(i) == C8_QuoteOf(i).raises \/ Len(C8_QuoteOf(i).Close) = 0

\* the fetch of the i-th symbol succeeded: history and info without an
\* exception, two bars at least, a usable previous close
C8_Succeeded(i) ==
    /\ ~C8_QuoteOf(i).raises /\ ~C8_QuoteOf(i).info.raises
    /\ Len(C8_QuoteOf(i).Close) >= 2
    /\ C8_QuoteOf(i).Close[Len(C8_QuoteOf(i).Close) - 1] # 0

\* C8: whatever the symbol list and the outcome of each symbol's fetch, the
\* keys of the returned mapping are input symbols, no symbol whose fetch
\* raised or returned an empty series has an entry, and a failure on one
\* symbol does not keep a later symbol from being processed.
C8_FailuresSkipped ==
    fetch_pc = "done" =>
        /\ DOMAIN data_map \subseteq { symbol_list[i] : i \in 1..Len(symbol_list) }
        /\ \A i \in 1..Len(symbol_list) :
             C8_Failed(i) => symbol_list[i] \notin DOMAIN data_map
        /\ \A i \in 1..Len(symbol_list) :
             C8_Succeeded(i) =>
               /\ symbol_list[i] \in DOMAIN data_map
               /\ data_map[symbol_list[i]] # None
               /\ data_map[symbol_list[i]].id = symbol_list[i]

\* a list whose first fetch raised and whose second symbol was still stored
C8_Witness ==
    /\ fetch_pc = "done" /\ Len(symbol_list) = 2
    /\ C8_QuoteOf(1).raises /\ C8_Succeeded(2)
    /\ DOMAIN data_map = {symbol_list[2]}
    /\ data_map[symbol_list[2]].score = 99


-----------------------------------------------------------------------------
(* get_analysis_data, lines 178-201 *)

Code2330TW == Code2330 \o TW
AnalysisSymbols == {Code2330, Code2330TW, IndexTWII}

\* every identifier a lookup can be issued under
Identifiers ==
    AnalysisSymbols \cup {get_symbol_tw(c) : c \in AnalysisSymbols}
    \cup {replace(c, TW, TWO) : c \in AnalysisSymbols} \cup {Code2330 \o TWO}

\* what yfinance answers for one identifier over one year: the content of
\* the rows does not matter here, only how many there are
YearQuotes ==
    { q \in Quotes : /\ \A i \in 1..Len(q.Close) : q.Close[i] = 100
                     /\ q.info.dict = <<>> }

AnalysisIdle ==
    /\ symbol = None /\ market = None /\ sym = None /\ hist_df = None
    /\ lookups = <<>> /\ analysis_pc = "idle" /\ analysis_result = None

AnalysisOnly ==
    UNCHANGED <<scoreVars, stratVars, fetchVars, reportVars, narrVars,
                sessionVars,
                dashVars>>

\* the symbol the view passes and the state of the data source
AnalysisEnter ==
    /\ AnalysisOnly
    /\ analysis_pc = "idle"
    /\ symbol' \in AnalysisSymbols
    /\ market' \in [Identifiers -> YearQuotes]
    /\ analysis_pc' = "primary"
    /\ UNCHANGED <<sym, hist_df, lookups, analysis_result>>

\* line 190: the identifier of the second lookup is computed from symbol,
\* not from sym
FallbackSym(s) == replace(s, TW, TWO)

\* lines 184-188: the primary lookup; an exception is caught at line 200
PrimaryLookup ==
    /\ AnalysisOnly
    /\ analysis_pc = "primary"
    /\ sym' = get_symbol_tw(symbol)
    /\ lookups' = Append(lookups, get_symbol_tw(symbol))
    /\ IF market[get_symbol_tw(symbol)].raises
       THEN /\ analysis_result' = None
            /\ analysis_pc' = "done"
            /\ UNCHANGED hist_df
       ELSE /\ hist_df' = market[get_symbol_tw(symbol)].Close
            /\ analysis_pc' = "check"
            /\ UNCHANGED analysis_result
    /\ UNCHANGED <<symbol, market>>

\* lines 189-192: the second lookup when the first returned no rows
FallbackLookup ==
    /\ AnalysisOnly
    /\ analysis_pc = "check"
    /\ IF Len(hist_df) = 0
       THEN /\ sym' = FallbackSym(symbol)
            /\ lookups' = Append(lookups, FallbackSym(symbol))
            /\ IF market[FallbackSym(symbol)].raises
               THEN /\ analysis_result' = None
                    /\ analysis_pc' = "done"
                    /\ UNCHANGED hist_df
               ELSE /\ hist_df' = market[FallbackSym(symbol)].Close
                    /\ analysis_pc' = "info"
                    /\ UNCHANGED analysis_result
       ELSE /\ analysis_pc' = "info"
            /\ UNCHANGED <<sym, hist_df, lookups, analysis_result>>
    /\ UNCHANGED <<symbol, market>>

\* lines 194-201: None on no rows or on an exception of ticker.info
AnalysisReturn ==
    /\ AnalysisOnly
    /\ analysis_pc = "info"
    /\ analysis_result' =
         IF Len(hist_df) = 0 THEN None
         ELSE IF market[sym].info.raises THEN None
         ELSE [df |-> hist_df, info |-> market[sym].info.dict]
    /\ analysis_pc' = "done"
    /\ UNCHANGED <<symbol, market, sym, hist_df, lookups>>

NextAnalysis ==
    AnalysisEnter \/ PrimaryLookup \/ FallbackLookup \/ AnalysisReturn

-----------------------------------------------------------------------------
(* Claims about get_analysis_data, checked under SpecAnalysis *)

\* C9: when the primary lookup of a numeric code (code + ".TW") returns an
\* empty series, a second lookup is issued under code + ".TWO", an
\* identifier different from the primary one; the result is None only if
\* both lookups return empty or a lookup raises.
C9_FallbackUnderTWO ==
    (/\ analysis_pc = "done"
     /\ isdigit(symbol)
     /\ ~market[symbol \o TW].raises
     /\ Len(market[symbol \o TW].Close) = 0) =>
        /\ Len(lookups) = 2
        /\ lookups[1] = symbol \o TW
        /\ lookups[2] = symbol \o TWO
        /\ lookups[2] # lookups[1]
        /\ analysis_result = None =>
             \/ market[lookups[2]].raises
             \/ Len(market[lookups[2]].Close) = 0
             \/ market[lookups[2]].info.raises

-----------------------------------------------------------------------------
(* generate_ai_report, lines 312-363 *)

\* A report is a Python str, kept as the sequence of the pieces it is
\* concatenated from.
\* line 316: "⚠️ 請先設定 Streamlit Secrets GEMINI_API_KEY"
ConfigMissingMessage == <<"WARNING: set Streamlit Secrets GEMINI_API_KEY first">>
\* mutant: the service failure reported with the configuration message
ErrorMessageAsConfig(e) == ConfigMissingMessage

\* line 363: f"AI 連線失敗: {str(e)}"
ErrorMessage(e) == <<"AI connection failed: ", e>>

\* st.secrets.get("GEMINI_API_KEY"): None, the empty string, or a key
ApiKeys == { [some |-> FALSE, v |-> ""], [some |-> TRUE, v |-> ""],
             [some |-> TRUE, v |-> "key"] }

\* what the text-generation service does when generate_content is called:
\* it raises an exception whose str is msg, or answers with a text (which
\* may repeat any string, the configuration message included)
ServiceOutcomes ==
    { [raises |-> TRUE, text |-> <<>>, msg |-> m] :
        m \in {"", "timeout", "429 quota exceeded"} }
    \cup { [raises |-> FALSE, text |-> t, msg |-> ""] :
             t \in {<<"### report">>, ConfigMissingMessage, <<>>} }

ReportIdle ==
    /\ api_key = None /\ report_df = None /\ service = None
    /\ report_pc = "idle" /\ remote_calls = 0 /\ report = None

ReportOnly ==
    UNCHANGED <<scoreVars, stratVars, fetchVars, analysisVars, narrVars,
                sessionVars,
                dashVars>>

\* line 314
ReportEnter ==
    /\ ReportOnly
    /\ report_pc = "idle"
    /\ api_key' \in ApiKeys
    /\ report_df' \in Histories
    /\ service' \in ServiceOutcomes
    /\ report_pc' = "key"
    /\ UNCHANGED <<remote_calls, report>>

\* lines 315-316: not api_key is true of None and of ""
CheckKey ==
    /\ ReportOnly
    /\ report_pc = "key"
    /\ IF ~(api_key.some /\ api_key.v # "")
       THEN report' = ConfigMissingMessage /\ report_pc' = "done"
       ELSE report_pc' = "prompt" /\ UNCHANGED report
    /\ UNCHANGED <<api_key, report_df, service, remote_calls>>

\* lines 318-357 and 362-363: configure, then the prompt; iloc[-1] on an
\* empty frame raises IndexError, caught by except Exception
BuildPrompt ==
    /\ ReportOnly
    /\ report_pc = "prompt"
    /\ IF Len(report_df) = 0
       THEN /\ report' = ErrorMessage("single positional indexer is out-of-bounds")
            /\ report_pc' = "done"
       ELSE report_pc' = "generate" /\ UNCHANGED report
    /\ UNCHANGED <<api_key, report_df, service, remote_calls>>

\* lines 359-363: the remote call
Generate ==
    /\ ReportOnly
    /\ report_pc = "generate"
    /\ remote_calls' = remote_calls + 1
    /\ report' = IF service.raises THEN ErrorMessage(service.msg)
                 ELSE service.text
    /\ report_pc' = "done"
    /\ UNCHANGED <<api_key, report_df, service>>

NextReport == ReportEnter \/ CheckKey \/ BuildPrompt \/ Generate

-----------------------------------------------------------------------------
(* Claims about generate_ai_report, checked under SpecReport *)

C10_NoCredential == ~api_key.some \/ api_key.v = ""

-----------------------------------------------------------------------------
(* get_kline_narrative, lines 300-310 *)

\* The bars the model draws, as Open / High / Low / Close:
\*   a long rising body, a long falling body, a small rising body inside a
\*   long range (body 1/20 of the range), equal open and close inside a
\*   range, and a bar that did not move at all (high = low)
BarShapes ==
    { [Open |-> 100, High |-> 110, Low |-> 100, Close |-> 110],
      [Open |-> 110, High |-> 110, Low |-> 100, Close |-> 100],
      [Open |-> 100, High |-> 110, Low |-> 90, Close |-> 101],
      [Open |-> 100, High |-> 105, Low |-> 95, Close |-> 100],
      [Open |-> 100, High |-> 100, Low |-> 100, Close |-> 100] }

\* the price frame of the bars b; the index of a row is its date, here the
\* day number, increasing with the position
OHLCFrame(b) ==
    [i \in DOMAIN b |-> [date |-> i, Open |-> b[i].Open, High |-> b[i].High,
                         Low |-> b[i].Low, Close |-> b[i].Close]]

\* mutant: a bar that closes at its open tagged as rising
KlineTagNonNegative(row) ==
    IF FracGe([num |-> (row.Close - row.Open) * 100, den |-> row.Open], 0)
    THEN "bullish" ELSE "bearish"

\* lines 307-308: change = (close - Open) / Open * 100;
\* "紅K" (bullish) if change > 0 else "黑K" (bearish)
KlineTag(row) ==
    IF FracGt([num |-> (row.Close - row.Open) * 100, den |-> row.Open], 0)
    THEN "bullish" ELSE "bearish"

\* lines 305-309: the line of one row,
\* f"{date}: {close:.1f} ({tag}, 幅度{change:.1f}%)"
KlineLine(row) ==
    [date |-> row.date,
     close |-> row.Close,
     tag |-> KlineTag(row),
     change |-> [num |-> (row.Close - row.Open) * 100, den |-> row.Open]]

\* lines 302-310: the lines of df.tail(5) in the order of the frame; the
\* returned string is these lines joined by " -> "
get_kline_narrative(d) ==
    LET subset == tail(d, 5)
    IN  [k \in 1..Len(subset) |-> KlineLine(subset[k])]

NarrIdle == narr_df = None /\ narr_pc = "idle" /\ narrative = None

NarrOnly ==
    UNCHANGED <<scoreVars, stratVars, fetchVars, analysisVars, reportVars,
                sessionVars,
                dashVars>>

\* the frame the caller passes
NarrEnter ==
    /\ NarrOnly
    /\ narr_pc = "idle"
    /\ \E n \in 0..MaxBars :
         \E b \in [1..n -> BarShapes] : narr_df' = OHLCFrame(b)
    /\ narr_pc' = "called"
    /\ UNCHANGED narrative

\* lines 302-310
NarrReturn ==
    /\ NarrOnly
    /\ narr_pc = "called"
    /\ narrative' = get_kline_narrative(narr_df)
    /\ narr_pc' = "done"
    /\ UNCHANGED narr_df

NextNarrative == NarrEnter \/ NarrReturn

-----------------------------------------------------------------------------
(* Claims about get_kline_narrative, checked under SpecNarrative *)

\* the row of the frame the k-th line of the narrative is about
C11_RowOf(k) == narr_df[Len(narr_df) - Len(narrative) + k]

\* one line per bar of the last five (or of all when fewer), oldest first
C11_OneLinePerBar ==
    /\ Len(narrative) = Min(5, Len(narr_df))
    /\ \A k \in 1..Len(narrative) :
         /\ narrative[k].date = C11_RowOf(k).date
         /\ narrative[k].close = C11_RowOf(k).Close
    /\ \A k \in 1..Len(narrative) - 1 :
         narrative[k].date < narrative[k + 1].date

\* the tag the body-fraction rule gives a row
C11_BodyFractionTag(row) ==
    IF /\ row.High > row.Low
       /\ 100 * (IF row.Close >= row.Open THEN row.Close - row.Open
                 ELSE row.Open - row.Close) < 15 * (row.High - row.Low)
    THEN "doji"
    ELSE IF row.Close > row.Open THEN "bullish" ELSE "bearish"

\* C11 as stated: one line per bar of the last five, oldest first, and
\* the tag of a line is doji when high > low and
\* |close - open| / (high - low) < 0.15, otherwise bullish if close > open
\* and bearish if not.
C11_Original ==
    narr_pc = "done" =>
        /\ C11_OneLinePerBar
        /\ \A k \in 1..Len(narrative) :
             narrative[k].tag = C11_BodyFractionTag(C11_RowOf(k))

\* C11: get_kline_narrative emits one line per bar for the most recent 5
\* bars (or all bars if fewer), oldest first, and the tag of a line is
\* bullish if the bar closed above its open and bearish if not, whatever
\* its high and low; no line is tagged doji.
C11_NarrativeTags ==
    narr_pc = "done" =>
        /\ C11_OneLinePerBar
        /\ \A k \in 1..Len(narrative) :
             /\ narrative[k].tag \in {"bullish", "bearish"}
             /\ narrative[k].tag = "bullish" <=>
                  C11_RowOf(k).Close > C11_RowOf(k).Open

\* a frame of more than five bars whose oldest bar is left out and whose
\* last bar has a body of 1/20 of its range and is tagged bullish, next to
\* a bar that closed at its open inside a range and is tagged bearish
C11_Witness ==
    /\ narr_pc = "done"
    /\ Len(narr_df) = 6 /\ Len(narrative) = 5
    /\ narrative[1].date = 2
    /\ narr_df[6].Open = 100 /\ narr_df[6].Close = 101
    /\ narr_df[6].High = 110 /\ narr_df[6].Low = 90
    /\ narrative[5].tag = "bullish"
    /\ narr_df[5].Open = 100 /\ narr_df[5].Close = 100
    /\ narr_df[5].High = 105
    /\ narrative[4].tag = "bearish"

-----------------------------------------------------------------------------
(* The session state and the sidebar, lines 406-433 and 442-444.  Every    *)
(* click of a button reruns the script; an action is one such run.         *)

Code2317 == <<"2", "3", "1", "7">>
Code2454 == <<"2", "4", "5", "4">>
Code3231 == <<"3", "2", "3", "1">>
Code0050 == <<"0", "0", "5", "0">>
Blank == <<" ">>

\* line 407
InitialWatchlist == <<Code2330, Code2317, Code2454, Code3231>>

\* what the user can have typed in the text input of line 416: nothing, a
\* code of the initial watchlist, another code, or a blank
NewStockInputs ==
    {<<>>, Code2330, Code2317, Code2454, Code3231, Code0050, Blank}

\* x in lst
In(x, lst) == \E i \in 1..Len(lst) : lst[i] = x

\* list.remove(x): the first occurrence of x deleted (x is in lst)
list_remove(lst, x) ==
    LET i == CHOOSE j \in 1..Len(lst) :
                 lst[j] = x /\ \A k \in 1..j - 1 : lst[k] # x
    IN  SubSeq(lst, 1, i - 1) \o SubSeq(lst, i + 1, Len(lst))

\* mutant: the empty input accepted
add_stock_accepts_empty(lst, new_stock) ==
    IF ~In(new_stock, lst) THEN Append(lst, new_stock) ELSE lst

\* lines 418-419: a str is true when it is not empty
add_stock(lst, new_stock) ==
    IF new_stock # <<>> /\ ~In(new_stock, lst)
    THEN Append(lst, new_stock) ELSE lst

\* session_state.current_view: None, or the code of the detail view
NoView == [some |-> FALSE, v |-> <<>>]
View(stock_id) == [some |-> TRUE, v |-> stock_id]

\* no button clicked
NoClick == [button |-> "none", id |-> <<>>]

\* lines 406-409: a fresh session
SessionInit ==
    /\ watchlist = InitialWatchlist
    /\ current_view = NoView
    /\ click = NoClick

SessionOnly ==
    UNCHANGED <<scoreVars, stratVars, fetchVars, analysisVars, reportVars,
                narrVars, dashVars>>

\* lines 416-420: the add button, with new_stock in the text input
AddStock ==
    /\ SessionOnly
    /\ \E new_stock \in NewStockInputs :
         /\ watchlist' = add_stock(watchlist, new_stock)
         /\ click' = [button |-> "add", id |-> new_stock]
    /\ UNCHANGED current_view

\* lines 426-430: the view button of a row of the watchlist
ViewStock ==
    /\ SessionOnly
    /\ \E i \in 1..Len(watchlist) :
         /\ current_view' = View(watchlist[i])
         /\ click' = [button |-> "nav", id |-> watchlist[i]]
    /\ UNCHANGED watchlist

\* lines 426-427 and 431-433: the delete button of a row of the watchlist
RemoveStock ==
    /\ SessionOnly
    /\ \E i \in 1..Len(watchlist) :
         /\ watchlist' = list_remove(watchlist, watchlist[i])
         /\ click' = [button |-> "del", id |-> watchlist[i]]
    /\ UNCHANGED current_view

\* lines 439-444: the back button of the detail view
BackToDashboard ==
    /\ SessionOnly
    /\ current_view.some
    /\ current_view' = NoView
    /\ click' = [button |-> "back", id |-> <<>>]
    /\ UNCHANGED watchlist

NextWatchlist == AddStock \/ ViewStock \/ RemoveStock \/ BackToDashboard

-----------------------------------------------------------------------------
(* Claims about the watchlist, checked under SpecWatchlist *)

\* no identifier twice and no empty identifier
C12_OrderedSet ==
    /\ \A i, j \in 1..Len(watchlist) : watchlist[i] = watchlist[j] => i = j
    /\ \A i \in 1..Len(watchlist) : watchlist[i] # <<>>

\* lst without x, the others in their order
C12_Without(lst, x) == SelectSeq(lst, LAMBDA y : y # x)

\* the effect of the run that handled the click
C12_Effect ==
    /\ click'.button = "add" =>
         IF click'.id = <<>> \/ In(click'.id, watchlist)
         THEN watchlist' = watchlist
         ELSE watchlist' = Append(watchlist, click'.id)
    /\ click'.button = "del" =>
         /\ In(click'.id, watchlist)
         /\ ~In(click'.id, watchlist')
         /\ Len(watchlist') = Len(watchlist) - 1
         /\ watchlist' = C12_Without(watchlist, click'.id)

\* C12: from the initial watchlist and after any sequence of add and
\* remove actions the watchlist has no duplicate and no empty identifier;
\* adding a symbol already present or an empty input leaves it unchanged,
\* adding a new symbol appends it at the end, and removing a symbol deletes
\* exactly that symbol and keeps the relative order of the others.
C12_WatchlistOrderedSet == []C12_OrderedSet /\ [][C12_Effect]_vars

\* 2317 removed from the middle and 0050 added at the end, then an add of
\* the code 2330 that is already there
C12_Witness ==
    /\ watchlist = <<Code2330, Code2454, Code3231, Code0050>>
    /\ click = [button |-> "add", id |-> Code2330]

-----------------------------------------------------------------------------
(* The home dashboard, lines 551-591: one run of the script with          *)
(* current_view None                                                       *)

IndexIXIC == <<"^", "I", "X", "I", "C">>
IndexSOX == <<"^", "S", "O", "X">>

\* line 557: the keys of indices, in insertion order
indices == <<IndexTWII, IndexIXIC, IndexSOX>>

\* line 560, a, b = iterable: the assignment succeeds only when the
\* iterable yields exactly two items; iterating a dict yields its keys
UnpacksIntoTwo(d) == Cardinality(DOMAIN d) = 2

\* fetch_stock_data_full([code]): lines 152-176 with a list of one code
FetchSingle(code, q) == FetchOne(<<>>, code, q[get_symbol_tw(code)])

\* lines 559-574 from the idx-th index on: the exception that leaves the
\* loop ("" when the loop ends) and the sections drawn so far
RECURSIVE IndicesLoop(_, _, _)
IndicesLoop(idx, q, drawn) ==
    IF idx > Len(indices) THEN [raised |-> "", rendered |-> drawn]
    ELSE IF ~UnpacksIntoTwo(FetchSingle(indices[idx], q))
    \* line 560: "not enough values to unpack (expected 2, got 0 or 1)"
    THEN [raised |-> "ValueError", rendered |-> drawn]
    \* lines 561-562: with two keys df_idx is a key, a non-empty str, and
    \* df_idx[sym] indexes a str with a str
    ELSE [raised |-> "TypeError", rendered |-> drawn]

\* lines 554-591: nothing catches an exception of the loop, so the
\* sections after it are drawn only when the loop ends
Dashboard(q) ==
    LET loop == IndicesLoop(1, q, <<"market-indices">>)
    IN  IF loop.raised # "" THEN loop
        ELSE [raised |-> "",
              rendered |-> loop.rendered
                             \o <<"watchlist-preview", "sector-scan">>]

DashIdle ==
    /\ index_quotes = None /\ dash_pc = "idle"
    /\ dash_raised = "" /\ rendered = <<>>

DashOnly ==
    UNCHANGED <<scoreVars, stratVars, fetchVars, analysisVars, reportVars,
                narrVars, sessionVars>>

\* the state of the data source when the page is opened
DashEnter ==
    /\ DashOnly
    /\ dash_pc = "idle"
    /\ index_quotes' \in [{get_symbol_tw(indices[i]) : i \in 1..Len(indices)}
                            -> YearQuotes]
    /\ dash_pc' = "run"
    /\ UNCHANGED <<dash_raised, rendered>>

\* lines 436 and 551-591: the else branch of the view switch
DashRender ==
    /\ DashOnly
    /\ dash_pc = "run"
    /\ ~current_view.some
    /\ dash_raised' = Dashboard(index_quotes).raised
    /\ rendered' = Dashboard(index_quotes).rendered
    /\ dash_pc' = "done"
    /\ UNCHANGED index_quotes

NextDashboard == DashEnter \/ DashRender

-----------------------------------------------------------------------------
(* Claims about the home dashboard, checked under SpecDashboard *)

\* C13: on the home dashboard (current_view is None) unavailable data
\* never aborts the page: for every outcome of the three market-index
\* fetches, entry present or absent, no exception leaves the run and the
\* watchlist preview and the sector scan are reached.
C13_DashboardNeverAborts ==
    (dash_pc = "done" /\ ~current_view.some) =>
        /\ dash_raised = ""
        /\ In("watchlist-preview", rendered)
        /\ In("sector-scan", rendered)

-----------------------------------------------------------------------------
(* calculate_ace_score: next-state relation *)

NextScore ==
    \/ Enter \/ ReadFrame \/ Momentum \/ Volume \/ Trend \/ Align
    \/ BiasAdjust \/ Fundamentals \/ Finish

AllIdle ==
    /\ ScoreIdle /\ StratIdle /\ FetchIdle /\ AnalysisIdle /\ ReportIdle
    /\ NarrIdle /\ SessionInit /\ DashIdle

InitScore == AllIdle

SpecScore == InitScore /\ [][NextScore]_vars

InitStrategy == AllIdle

SpecStrategy == InitStrategy /\ [][NextStrategy]_vars

InitFetch == AllIdle

SpecFetch == InitFetch /\ [][NextFetch]_vars

InitAnalysis == AllIdle

SpecAnalysis == InitAnalysis /\ [][NextAnalysis]_vars

InitReport == AllIdle

SpecReport == InitReport /\ [][NextReport]_vars

InitNarrative == AllIdle

SpecNarrative == InitNarrative /\ [][NextNarrative]_vars

InitWatchlist == AllIdle

SpecWatchlist == InitWatchlist /\ [][NextWatchlist]_vars

InitDashboard == AllIdle

SpecDashboard == InitDashboard /\ [][NextDashboard]_vars

-----------------------------------------------------------------------------
(* Claims about calculate_ace_score, checked under SpecScore *)

\* line 232
prev == df.Close[Len(df.Close) - 1]

\* C1: whatever the last two closes, the volumes, MA20/MA60 (defined or
\* not) and the trailing P/E, the returned score is an integer in 0..100.
C1_ScoreInRange ==
    pc = "done" => final_score \in 0..100

\* a call that returned with every adjustment pushing the score up
C1_Witness ==
    pc = "done" /\ final_score = 88 /\ "trailingPE" \in DOMAIN info

\* the adjustments as the claim words them, read off the frame
C2_Momentum(d) ==
    LET c == d.Close[Len(d.Close)]
        p == d.Close[Len(d.Close) - 1]
    IN  IF 3 * p < 100 * (c - p) /\ 100 * (c - p) < 7 * p THEN 8
        ELSE IF 100 * (c - p) >= 7 * p THEN 5
        ELSE IF 100 * (c - p) < -4 * p THEN -8
        ELSE 0

C2_Last5(d) ==
    { i \in 1..Len(d.Volume) : i > Len(d.Volume) - 5 }

RECURSIVE C2_Total(_, _)
C2_Total(v, idx) ==
    IF idx = {} THEN 0
    ELSE LET i == CHOOSE j \in idx : TRUE
         IN  v[i] + C2_Total(v, idx \ {i})

C2_Volume(d) ==
    LET v == d.Volume[Len(d.Volume)]
        n == Cardinality(C2_Last5(d))
        t == C2_Total(d.Volume, C2_Last5(d))
    IN  IF 2 * v * n > 3 * t THEN 5
        ELSE IF 2 * v * n < t THEN -2
        ELSE 0

C2_Trend(d) ==
    LET c == d.Close[Len(d.Close)]
    IN  IF d.MA20.nan THEN 0
        ELSE IF c > d.MA20.v
        THEN 10 + (IF ~d.MA60.nan /\ d.MA20.v > d.MA60.v THEN 10 ELSE 0)
        ELSE -10

C2_Bias(d) ==
    LET c == d.Close[Len(d.Close)]
    IN  IF ~d.MA20.nan /\ 100 * (c - d.MA20.v) > 15 * d.MA20.v THEN -5 ELSE 0

C2_Clamp(x) == IF x < 0 THEN 0 ELSE IF x > 100 THEN 100 ELSE x

C2_Flat(d) == \A i \in C2_Last5(d) : d.Volume[i] = d.Volume[Len(d.Volume)]

\* C2: with an empty fundamentals record the score is
\* clamp(50 + momentum + volume + trend + bias, 0, 100) with the four terms
\* as the claim gives them; closes ending 103, 107 with flat volume and MA20
\* undefined give 58.
C2_ScoreFormula ==
    (pc = "done" /\ DOMAIN info = {}) =>
        /\ final_score = C2_Clamp(50 + C2_Momentum(df) + C2_Volume(df)
                                     + C2_Trend(df) + C2_Bias(df))
        /\ (prev = 103 /\ curr = 107 /\ C2_Flat(df) /\ df.MA20.nan)
               => final_score = 58

\* the worked example, on a frame long enough for tail(5) to leave a bar out
C2_Witness ==
    /\ pc = "done" /\ DOMAIN info = {}
    /\ Len(df.Close) = 6 /\ prev = 103 /\ curr = 107
    /\ C2_Flat(df) /\ df.MA20.nan
    /\ final_score = 58 /\ reasons = <<"healthy-momentum">>

\* the five bands of the claim
C3_FiveBands(fs) ==
    IF fs >= 80 THEN "strong-buy"
    ELSE IF fs >= 65 THEN "moderately-bullish"
    ELSE IF fs >= 45 THEN "neutral-watch"
    ELSE IF fs >= 25 THEN "defensive"
    ELSE "caution"

C4_Delta(label) ==
    CASE label = "healthy-momentum" -> 8
      [] label = "overextended-strength" -> 5
      [] label = "heavy-selling" -> -8
      [] label = "volume-breakout" -> 5
      [] label = "volume-freeze" -> -2
      [] label = "above-MA20" -> 10
      [] label = "bullish-alignment" -> 10
      [] label = "below-MA20" -> -10
      [] label = "overheated-short-term" -> -5
      [] label = "low-pe" -> 5
      [] OTHER -> 0

RECURSIVE C4_Sum(_)
C4_Sum(r) == IF r = <<>> THEN 0 ELSE C4_Delta(Head(r)) + C4_Sum(Tail(r))

C4_Adjusting ==
    pc \in {"momentum", "volume", "trend", "align", "bias", "fundamentals"}

\* one step of the scoring: the reasons only grow, by at most one label, and
\* they grow exactly when the running score changes, by that label's delta
C4_Step ==
    /\ C4_Adjusting =>
         /\ Len(reasons') \in {Len(reasons), Len(reasons) + 1}
         /\ SubSeq(reasons', 1, Len(reasons)) = reasons
         /\ (Len(reasons') = Len(reasons)) <=> (score' = score)
         /\ Len(reasons') = Len(reasons) + 1 =>
                score' = score + C4_Delta(reasons'[Len(reasons')])
    /\ pc = "clamp" => reasons' = reasons /\ score' = score

\* C4: every adjustment that changes the running score appends exactly one
\* reason label and no label is appended without a score change; the
\* pre-clamp score is 50 plus the deltas of the labels in reasons; the final
\* clamp leaves reasons unchanged.
C4_ReasonsTrackScore ==
    /\ [](pc \in {"clamp", "done"} => score = 50 + C4_Sum(reasons))
    /\ [][C4_Step]_vars

\* a call in which four adjustments fired, two of them negative
C4_Witness ==
    /\ pc = "done"
    /\ reasons = <<"heavy-selling", "volume-freeze", "below-MA20", "low-pe">>
    /\ score = 35

\* C5 as stated: the fundamentals step adds 8 with its own label when
\* return-on-equity > 0.15 and adds 7 with its own label when
\* 0 < trailing P/E < 20; an absent field skips its adjustment, no error.
C5_Original ==
    [][pc = "fundamentals" =>
        LET roeHit == "returnOnEquity" \in DOMAIN info
                        /\ info["returnOnEquity"] > 15
            peHit == "trailingPE" \in DOMAIN info
                        /\ 0 < info["trailingPE"] /\ info["trailingPE"] < 20
        IN  /\ score' = score + (IF roeHit THEN 8 ELSE 0)
                              + (IF peHit THEN 7 ELSE 0)
            /\ Len(reasons') = Len(reasons) + (IF roeHit THEN 1 ELSE 0)
                                            + (IF peHit THEN 1 ELSE 0)
            /\ raised' = None]_vars

\* C5 amended: the fundamentals step applies one adjustment: a trailing P/E
\* with 0 < P/E < 15 adds 5 with its own reason label; return-on-equity is
\* not read and adjusts nothing; an absent P/E skips the adjustment and no
\* error is raised.
C5_Fundamentals ==
    [][pc = "fundamentals" =>
        LET peHit == "trailingPE" \in DOMAIN info
                        /\ 0 < info["trailingPE"] /\ info["trailingPE"] < 15
        IN  /\ score' = score + (IF peHit THEN 5 ELSE 0)
            /\ reasons' = (IF peHit THEN reasons \o <<"low-pe">> ELSE reasons)
            /\ raised' = None]_vars

\* the step has acted on a record with a high return-on-equity and a low P/E
C5_Witness ==
    /\ pc = "clamp"
    /\ DOMAIN info = {"trailingPE", "returnOnEquity"}
    /\ info["returnOnEquity"] = 20 /\ info["trailingPE"] = 10
    /\ reasons # <<>> /\ reasons[Len(reasons)] = "low-pe"

\* C6: on a frame of fewer than 2 bars the call returns the neutral result
\* (score 50, action insufficient-data, no reasons) instead of raising.
C6_NeutralOnShortFrame ==
    (pc \in {"done", "raised"} /\ Len(df.Close) < 2) =>
        /\ pc = "done"
        /\ raised = None
        /\ final_score = 50
        /\ action = "insufficient-data"
        /\ reasons = <<>>

=============================================================================
